---- MODULE Spec2Model ----
(***************************************************************************)
(* A model of src/src/InMemoryProvider.ts: the in-memory NoSqlProvider     *)
(* backend.  InMemoryProvider owns one dictionary per store;               *)
(* InMemoryTransaction schedules its own commit with setTimeout(0) and     *)
(* hands out InMemoryStore objects, each of which keeps a copy-on-write    *)
(* view (_mergedData) and a change log (_pendingCommitDataChanges) over    *)
(* the provider's dictionary; InMemoryIndex answers queries over the       *)
(* dictionary object it captured when it was opened.                       *)
(*                                                                         *)
(* JavaScript runs every handler to completion, so each method and the     *)
(* timer callback is one action.  Dictionaries are sequences of entries in *)
(* insertion order.  Object identity matters in two                        *)
(* places and is modelled explicitly: _mergedData may be the very object   *)
(* _committedStoreData (field "aliased"), and an InMemoryIndex keeps       *)
(* the object it was constructed with (field "ref").                       *)
(***************************************************************************)
EXTENDS Integers, Sequences, FiniteSets, TLC

(* ------------------------------ bounds -------------------------------- *)

\* Transactions constructed in one behaviour.
MaxTrans == 2
\* InMemoryStore objects constructed in one behaviour.
MaxStoreObjs == 2
\* Calls of abort() in one behaviour.
MaxAborts == 2
\* Items in one put() call, keys in one remove()/getMultiple() call.
MaxItems == 2
\* Calls of put/remove/clearAllData accepted in one behaviour.
MaxWrites == 2
\* InMemoryIndex objects the caller keeps in one behaviour (it lets go at
\* once of any further one it opens).
MaxIndexes == 1
\* The largest limit and offset passed to an index query.
MaxLimit == 1

(* ------------------------------ values -------------------------------- *)

\* The stores of the schema handed to InMemoryProvider.open.
StoreNames == {"A", "B"}

\* Key values a caller passes; "none" stands for a value the key codec
\* cannot serialize (undefined, null, an object).
Keys == {"a", "b"}
NoKey == "none"
KeyInputs == Keys \cup {NoKey}

\* The payload of a row, beside its primary key.
Payloads == {"x", "y"}

\* Rows a caller passes to put(): two with the same primary key, two with
\* the same payload; and one that has no value at the primary key path.
Rows == {[id |-> "a", v |-> "x"], [id |-> "a", v |-> "y"], [id |-> "b", v |-> "x"]}
RowInputs == Rows \cup {[id |-> NoKey, v |-> "x"]}

\* JavaScript's undefined as a dictionary value (the tombstone of
\* _pendingCommitDataChanges).
Undefined == [id |-> "undefined", v |-> "undefined"]

\* An optional value: <<>> is undefined, <<x>> is x.
None == <<>>
Some(x) == <<x>>

(* --------------------------- key codec -------------------------------- *)

\* NoSqlProviderUtils.serializeKeyToString: an order-preserving injection
\* of key values into strings.  A serialized key is modelled by its rank
\* in the lexicographic order of the strings ("a" < "b" < "c" < "x" < "y").
\* It throws on a value it cannot serialize.
Serializable == {"a", "b", "c", "x", "y"}

CanSerialize(key) == key \in Serializable

SerializeKeyToString(key) ==
    CASE key = "a" -> 1 [] key = "b" -> 2 [] key = "c" -> 3
      [] key = "x" -> 4 [] key = "y" -> 5

\* NoSqlProviderUtils.getValueForSingleKeypath(item, keyPath) for the key
\* path of the multi-entry index, arrayified: the elements of the row's
\* collection, none for a row that has no value there.
MultiEntryValues(item) == IF "tags" \in DOMAIN item THEN item.tags ELSE <<>>

\* NoSqlProviderUtils.getSerializedKeyForKeypath(item, primaryKeyPath):
\* the row's value at the primary key path, serialized.
HasPrimaryKey(item) == CanSerialize(item.id)

GetSerializedKeyForKeypath(item) == SerializeKeyToString(item.id)

\* NoSqlProviderUtils.formListOfSerializedKeys: throws if any key does.
CanFormList(keys) == \A i \in 1..Len(keys) : CanSerialize(keys[i])

FormListOfSerializedKeys(keys) ==
    [i \in 1..Len(keys) |-> SerializeKeyToString(keys[i])]

(* --------------------------- dictionaries ----------------------------- *)

\* A JavaScript object used as a dictionary (_.Dictionary<any>): its own
\* properties in insertion order, each an entry [k |-> key, val |-> value].
EmptyDict == <<>>

DictKeys(d) == {d[i].k : i \in 1..Len(d)}

DictHas(d, key) == \E i \in 1..Len(d) : d[i].k = key

DictIndex(d, key) == CHOOSE i \in 1..Len(d) : d[i].k = key

\* d[key]  (only where DictHas(d, key)).
DictValue(d, key) == d[DictIndex(d, key)].val

\* d[key] for a key that may be absent: undefined is None.
DictGet(d, key) == IF DictHas(d, key) THEN Some(DictValue(d, key)) ELSE None

\* d[key] = val: an existing property keeps its place, a new one is last.
DictSet(d, key, val) ==
    IF DictHas(d, key)
    THEN [d EXCEPT ![DictIndex(d, key)] = [k |-> key, val |-> val]]
    ELSE Append(d, [k |-> key, val |-> val])

\* delete d[key]
DictDelete(d, key) ==
    IF DictHas(d, key)
    THEN LET i == DictIndex(d, key)
         IN  SubSeq(d, 1, i - 1) \o SubSeq(d, i + 1, Len(d))
    ELSE d

\* _.assign({}, d): a new object with d's own entries, in d's order.
DictClone(d) == [i \in 1..Len(d) |-> d[i]]

\* The dictionary as a mapping, insertion order forgotten.
AsMap(d) == [key \in DictKeys(d) |-> DictValue(d, key)]

(* ------------------------- InMemoryStore ------------------------------ *)

\* An InMemoryStore object o:
\*   trans    the InMemoryTransaction it was constructed for (_trans)
\*   name     the store whose dictionary it wraps (_committedStoreData is
\*            the provider's dictionary of that store, by reference)
\*   pending  _pendingCommitDataChanges: None, or Some(dictionary) whose
\*            values are rows or Undefined
\*   aliased  whether _mergedData is the object _committedStoreData
\*   merged   the contents of _mergedData when it is an object of its own
\*   indexes  the InMemoryIndex objects opened on it that the caller holds
\* The methods are functions of env = [o |-> the object, c |-> the
\* provider's dictionary of store o.name], which they may both change.
NewStore(t, name) ==
    [trans |-> t, name |-> name, pending |-> None, aliased |-> TRUE,
     merged |-> EmptyDict, indexes |-> <<>>]

\* A store that reads the provider's dictionary whether or not it has
\* cloned it.
MergedDataCommitted(env) == env.c

\* this._mergedData, read.
MergedData(env) == IF env.o.aliased THEN env.c ELSE env.o.merged

\* A store whose put and remove record the change in
\* _pendingCommitDataChanges and leave _mergedData as it was.
MutateMergedLost(env, d) == env

\* A mutation in place of the object this._mergedData refers to.
MutateMerged(env, d) ==
    IF env.o.aliased THEN [env EXCEPT !.c = d] ELSE [env EXCEPT !.o.merged = d]

\* this._mergedData = <another object>.  The object it referred to lives
\* on, unchanged from now on, in the InMemoryIndex objects constructed
\* with it.
AssignMerged(o, aliased, d) ==
    [o EXCEPT !.aliased = aliased,
              !.merged = d,
              !.indexes = [i \in 1..Len(o.indexes) |->
                  IF o.indexes[i].ref = "merged"
                  THEN [o.indexes[i] EXCEPT !.ref = "detached", !.data = o.merged]
                  ELSE o.indexes[i]]]

\* A _checkDataClone that starts the pending changes and keeps
\* _mergedData the committed dictionary itself.
CheckDataCloneShared(env) ==
    IF env.o.pending = None
    THEN [env EXCEPT !.o.pending = Some(EmptyDict)]
    ELSE env

\* _checkDataClone
CheckDataClone(env) ==
    IF env.o.pending = None
    THEN [env EXCEPT !.o = AssignMerged([env.o EXCEPT !.pending = Some(EmptyDict)],
                                        FALSE, DictClone(env.c))]
    ELSE env

\* internal_commitPendingData: the _.each over the pending changes.
RECURSIVE ReplayPending(_, _)
ReplayPending(c, pending) ==
    IF pending = <<>> THEN c
    ELSE LET e == Head(pending)
         IN  ReplayPending(IF e.val = Undefined THEN DictDelete(c, e.k)
                                                ELSE DictSet(c, e.k, e.val),
                           Tail(pending))

\* A commit that replays the rows of the pending changes and skips the
\* tombstones.
CommitPendingDataKeepsRemoved(env) ==
    [o |-> AssignMerged([env.o EXCEPT !.pending = None], TRUE, EmptyDict),
     c |-> IF env.o.pending = None THEN env.c
           ELSE ReplayPending(env.c,
                    SelectSeq(env.o.pending[1], LAMBDA e : e.val # Undefined))]

\* internal_commitPendingData
CommitPendingData(env) ==
    [o |-> AssignMerged([env.o EXCEPT !.pending = None], TRUE, EmptyDict),
     c |-> IF env.o.pending = None THEN env.c
           ELSE ReplayPending(env.c, env.o.pending[1])]

\* A rollback that calls the commit of the store.
RollbackPendingDataApplied(env) == CommitPendingData(env)

\* internal_rollbackPendingData
RollbackPendingData(env) ==
    [env EXCEPT !.o = AssignMerged([env.o EXCEPT !.pending = None], TRUE, EmptyDict)]

\* put: the _.each over the items inside _.attempt.  An item without a
\* primary key throws, which ends the loop; err tells whether one did.
RECURSIVE PutItems(_, _)
PutItems(env, items) ==
    IF items = <<>> THEN [env |-> env, err |-> FALSE]
    ELSE LET item == Head(items) IN
         IF ~HasPrimaryKey(item) THEN [env |-> env, err |-> TRUE]
         ELSE LET pk == GetSerializedKeyForKeypath(item)
                  e1 == [env EXCEPT !.o.pending = Some(DictSet(env.o.pending[1], pk, item))]
                  e2 == MutateMerged(e1, DictSet(MergedData(e1), pk, item))
              IN  PutItems(e2, Tail(items))

\* put, past the check of internal_isOpen.
StorePut(env, items) == PutItems(CheckDataClone(env), items)

\* remove: the _.each over the serialized keys.
RECURSIVE RemoveKeys(_, _)
RemoveKeys(env, joinedKeys) ==
    IF joinedKeys = <<>> THEN env
    ELSE LET key == Head(joinedKeys)
             e1 == [env EXCEPT !.o.pending = Some(DictSet(env.o.pending[1], key, Undefined))]
             e2 == MutateMerged(e1, DictDelete(MergedData(e1), key))
         IN  RemoveKeys(e2, Tail(joinedKeys))

\* A remove that deletes the keys from _mergedData and records nothing in
\* _pendingCommitDataChanges.
StoreRemoveUnrecorded(env, keys) ==
    LET e0 == CheckDataClone(env) IN
    IF ~CanFormList(keys) THEN [env |-> e0, err |-> TRUE]
    ELSE LET joinedKeys == FormListOfSerializedKeys(keys)
             gone == {joinedKeys[i] : i \in 1..Len(joinedKeys)}
         IN  [env |-> MutateMerged(e0, SelectSeq(MergedData(e0), LAMBDA e : e.k \notin gone)),
              err |-> FALSE]

\* remove, past the check of internal_isOpen.
StoreRemove(env, keys) ==
    LET e0 == CheckDataClone(env) IN
    IF ~CanFormList(keys) THEN [env |-> e0, err |-> TRUE]
    ELSE [env |-> RemoveKeys(e0, FormListOfSerializedKeys(keys)), err |-> FALSE]

\* clearAllData: the _.each over _mergedData.
RECURSIVE TombstoneAll(_, _)
TombstoneAll(pending, entries) ==
    IF entries = <<>> THEN pending
    ELSE TombstoneAll(DictSet(pending, Head(entries).k, Undefined), Tail(entries))

\* A clearAllData that empties _mergedData without recording a tombstone
\* for the keys it drops.
StoreClearAllDataNoTombstones(env) ==
    LET e0 == CheckDataClone(env)
    IN  [e0 EXCEPT !.o = AssignMerged(e0.o, FALSE, EmptyDict)]

\* clearAllData, past the check of internal_isOpen.
StoreClearAllData(env) ==
    LET e0 == CheckDataClone(env)
        e1 == [e0 EXCEPT !.o.pending = Some(TombstoneAll(e0.o.pending[1], MergedData(e0)))]
    IN  [e1 EXCEPT !.o = AssignMerged(e1.o, FALSE, EmptyDict)]

\* get, past the check of internal_isOpen: [err, rows], rows being None
\* for undefined.
StoreGet(env, key) ==
    IF ~CanSerialize(key) THEN [err |-> TRUE, rows |-> <<>>]
    ELSE [err |-> FALSE, rows |-> DictGet(MergedData(env), SerializeKeyToString(key))]

\* _.compact(_.map(joinedKeys, key => this._mergedData[key]))
RECURSIVE CompactLookup(_, _)
CompactLookup(d, joinedKeys) ==
    IF joinedKeys = <<>> THEN <<>>
    ELSE DictGet(d, Head(joinedKeys)) \o CompactLookup(d, Tail(joinedKeys))

\* getMultiple, past the check of internal_isOpen.
StoreGetMultiple(env, keys) ==
    IF ~CanFormList(keys) THEN [err |-> TRUE, rows |-> <<>>]
    ELSE [err |-> FALSE,
          rows |-> CompactLookup(MergedData(env), FormListOfSerializedKeys(keys))]

(* ------------------------- InMemoryIndex ------------------------------ *)

\* The indexes of every store's schema: an ordinary index on the payload
\* and a multi-entry index on the row's collection.  "pk" names the
\* primary key view (no index schema).
IndexNames == {"byV", "byTags"}

\* An InMemoryIndex object:
\*   schema  "pk" for openPrimaryKey, else the name of the index
\*   ref     which object its _mergedData is: "merged", the object the
\*           store's _mergedData refers to now; "committed", the provider's
\*           dictionary; "detached", an object no store refers to any more
\*   data    the contents of a detached object
NewIndex(o, schema) ==
    [schema |-> schema,
     ref |-> IF o.aliased THEN "committed" ELSE "merged",
     data |-> EmptyDict]

\* openPrimaryKey / openIndex of a declared index: the store after the
\* call; the new InMemoryIndex is the last of its indexes if the caller
\* keeps it.
StoreOpenIndex(env, schema, keep) ==
    LET e0 == CheckDataClone(env)
    IN  IF keep THEN [e0 EXCEPT !.o.indexes = Append(@, NewIndex(e0.o, schema))]
        ELSE e0

\* this._mergedData of an InMemoryIndex, read.
IndexMergedData(env, ix) ==
    CASE ix.ref = "merged" -> env.o.merged
      [] ix.ref = "committed" -> env.c
      [] ix.ref = "detached" -> ix.data

\* _calcChunkedData: the serialized index keys of one row, in the order
\* the row is filed under them.
IndexKeysOf(item, schema) ==
    IF schema = "byTags"
    THEN [i \in 1..Len(MultiEntryValues(item)) |->
              SerializeKeyToString(MultiEntryValues(item)[i])]
    ELSE <<SerializeKeyToString(item.v)>>

\* _calcChunkedData: the _.each over the keys of one row.
RECURSIVE FileUnder(_, _, _)
FileUnder(data, keys, item) ==
    IF keys = <<>> THEN data
    ELSE LET key == Head(keys)
         IN  FileUnder(IF ~DictHas(data, key) THEN DictSet(data, key, <<item>>)
                       ELSE DictSet(data, key, Append(DictValue(data, key), item)),
                       Tail(keys), item)

\* _calcChunkedData: a dictionary from serialized index key to the rows
\* under it.  For the primary key the value is the row itself, which
\* _.flatten treats as a list of one.
RECURSIVE Pivot(_, _, _)
Pivot(data, entries, schema) ==
    IF entries = <<>> THEN data
    ELSE LET item == Head(entries).val
         IN  Pivot(FileUnder(data, IndexKeysOf(item, schema), item),
                   Tail(entries), schema)

CalcChunkedData(mergedData, schema) ==
    IF schema = "pk"
    THEN [i \in 1..Len(mergedData) |->
              [k |-> mergedData[i].k, val |-> <<mergedData[i].val>>]]
    ELSE Pivot(EmptyDict, mergedData, schema)

\* Array.prototype.sort on serialized keys: ascending.
RECURSIVE Sort(_)
Sort(S) ==
    IF S = {} THEN <<>>
    ELSE LET m == CHOOSE x \in S : \A y \in S : x <= y
         IN  <<m>> \o Sort(S \ {m})

Reverse(q) == [i \in 1..Len(q) |-> q[Len(q) + 1 - i]]

\* Array.prototype.slice(from) and slice(0, n)
SliceFrom(q, from) == SubSeq(q, from + 1, Len(q))
SliceTo(q, n) == SubSeq(q, 1, IF n < Len(q) THEN n ELSE Len(q))

RECURSIVE Flatten(_)
Flatten(qs) == IF qs = <<>> THEN <<>> ELSE Head(qs) \o Flatten(Tail(qs))

\* _returnResultsFromKeys.  A limit or offset of 0 is falsy, as is an
\* omitted one, and leaves the keys as they are.
ReturnResultsFromKeys(data, sortedKeys, reverse, limit, offset) ==
    LET k1 == IF reverse THEN Reverse(sortedKeys) ELSE sortedKeys
        k2 == IF offset # 0 THEN SliceFrom(k1, offset) ELSE k1
        k3 == IF limit # 0 THEN SliceTo(k2, limit) ELSE k2
    IN  Flatten([i \in 1..Len(k3) |-> DictValue(data, k3[i])])

GetKeysForRangeInclusive(data, keyLow, keyHigh, lowRangeExclusive, highRangeExclusive) ==
    {key \in DictKeys(data) : key >= keyLow /\ key <= keyHigh}

\* _getKeysForRange, the bounds serialized.
GetKeysForRange(data, keyLow, keyHigh, lowRangeExclusive, highRangeExclusive) ==
    {key \in DictKeys(data) :
        /\ (key > keyLow \/ (key = keyLow /\ ~lowRangeExclusive))
        /\ (key < keyHigh \/ (key = keyHigh /\ ~highRangeExclusive))}

\* getAll, past the check of internal_isOpen.
IndexGetAll(mergedData, schema, reverse, limit, offset) ==
    LET data == CalcChunkedData(mergedData, schema)
    IN  [err |-> FALSE,
         rows |-> ReturnResultsFromKeys(data, Sort(DictKeys(data)), reverse, limit, offset)]

\* getRange, past the check of internal_isOpen.
IndexGetRange(mergedData, schema, low, high, lowEx, highEx, reverse, limit, offset) ==
    IF ~(CanSerialize(low) /\ CanSerialize(high)) THEN [err |-> TRUE, rows |-> <<>>]
    ELSE LET data == CalcChunkedData(mergedData, schema)
             keys == GetKeysForRange(data, SerializeKeyToString(low),
                                     SerializeKeyToString(high), lowEx, highEx)
         IN  [err |-> FALSE,
              rows |-> ReturnResultsFromKeys(data, Sort(keys), reverse, limit, offset)]

\* countAll, past the check of internal_isOpen.
IndexCountAll(mergedData, schema) ==
    [err |-> FALSE, count |-> Cardinality(DictKeys(CalcChunkedData(mergedData, schema)))]

\* countRange, past the check of internal_isOpen.
IndexCountRange(mergedData, schema, low, high, lowEx, highEx) ==
    IF ~(CanSerialize(low) /\ CanSerialize(high)) THEN [err |-> TRUE, count |-> 0]
    ELSE [err |-> FALSE,
          count |-> Cardinality(GetKeysForRange(CalcChunkedData(mergedData, schema),
                        SerializeKeyToString(low), SerializeKeyToString(high),
                        lowEx, highEx))]

(* ------------------------------ state --------------------------------- *)

VARIABLES
    stores,      \* InMemoryProvider._stores: store name -> its dictionary (data)
    trans,       \* the InMemoryTransaction objects constructed, in order
    storeObjs,   \* the InMemoryStore objects constructed, in order
    timers,      \* the event loop's pending setTimeout callbacks, in order
    lockHelper,  \* per transaction token, the calls TransactionLockHelper got
    applied,     \* per transaction, the stores whose dictionary a call made
                 \* through it (or its timer callback) has modified
    writes,      \* the put/remove/clearAllData calls accepted so far
    lastPut      \* Some([h, rows]) while the last put/remove/clearAllData
                 \* call accepted was a put on store object h that resolved,
                 \* rows being the items it was given less those a later item
                 \* of the same call replaced, and since then no abort() was
                 \* called and no other transaction has committed; else None

vars == <<stores, trans, storeObjs, timers, lockHelper, applied, writes, lastPut>>

\* Store names a caller may ask for: "Z" is not in the schema.
NameInputs == StoreNames \cup {"Z"}

\* The tokens TransactionLockHelper grants: the store names and the
\* write intent the transaction was opened with.
Tokens == {[storeNames |-> {"A", "B"}, writeNeeded |-> TRUE]}

\* InMemoryProvider.open: one empty dictionary per store of the schema.
Init ==
    /\ stores = [n \in StoreNames |-> EmptyDict]
    /\ trans = <<>>
    /\ storeObjs = <<>>
    /\ timers = <<>>
    /\ lockHelper = <<>>
    /\ applied = <<>>
    /\ writes = 0
    /\ lastPut = None

\* internal_isOpen
InternalIsOpen(t) == trans[t].openTimer # None

\* The objects a method of store object h works on.
Env(h) == [o |-> storeObjs[h], c |-> stores[storeObjs[h].name]]

\* The state after a method of store object h left e behind.
StoreStep(h, e) ==
    LET n == storeObjs[h].name
        t == storeObjs[h].trans
    IN  /\ storeObjs' = [storeObjs EXCEPT ![h] = e.o]
        /\ stores' = [stores EXCEPT ![n] = e.c]
        /\ applied' = IF e.c # stores[n]
                      THEN [applied EXCEPT ![t] = @ \cup {n}]
                      ELSE applied
        /\ UNCHANGED <<trans, timers, lockHelper>>

(* ------------------- InMemoryProvider / Transaction -------------------- *)

\* InMemoryProvider.openTransaction, the lock helper having granted the
\* token: the constructor of InMemoryTransaction, which schedules the
\* commit with setTimeout(..., 0).
OpenTransaction(token) ==
    /\ Len(trans) < MaxTrans
    /\ LET t == Len(trans) + 1 IN
       /\ trans' = Append(trans, [storeNames |-> token.storeNames,
                                  writeNeeded |-> token.writeNeeded,
                                  openTimer |-> Some(t),
                                  stores |-> [n \in StoreNames |-> 0]])
       /\ timers' = Append(timers, t)
       /\ lockHelper' = Append(lockHelper, <<>>)
       /\ applied' = Append(applied, {})
    /\ UNCHANGED <<stores, storeObjs, writes, lastPut>>

\* A getStore that looks the name up in the provider alone.
GetStoreResultUnscoped(t, storeName) ==
    IF storeName \in StoreNames /\ trans[t].stores[storeName] # 0 THEN "same"
    ELSE IF storeName \notin StoreNames THEN "notfound"
    ELSE "new"

\* What getStore(storeName) on transaction t does: "notfound" for either
\* throw, "same" for the store object it already has, "new".
GetStoreResult(t, storeName) ==
    IF storeName \notin trans[t].storeNames THEN "notfound"
    ELSE IF storeName \in StoreNames /\ trans[t].stores[storeName] # 0 THEN "same"
    ELSE IF storeName \notin StoreNames THEN "notfound"
    ELSE "new"

\* InMemoryTransaction.getStore
GetStore(t, storeName) ==
    /\ t \in 1..Len(trans)
    /\ IF GetStoreResult(t, storeName) = "new"
       THEN /\ Len(storeObjs) < MaxStoreObjs
            /\ storeObjs' = Append(storeObjs, NewStore(t, storeName))
            /\ trans' = [trans EXCEPT ![t].stores[storeName] = Len(storeObjs) + 1]
       ELSE UNCHANGED <<trans, storeObjs>>
    /\ UNCHANGED <<stores, timers, lockHelper, applied, writes, lastPut>>

\* The store objects in this._stores of transaction t.
OwnStores(t) == {trans[t].stores[n] : n \in StoreNames} \ {0}

\* The state after a method was run on every store of t's _stores, after[h]
\* being what it leaves of store object h.  The stores of one transaction
\* wrap different dictionaries, so the order of the _.each does not matter.
EachOwnStore(t, after) ==
    LET changed == {storeObjs[h].name : h \in {x \in OwnStores(t) :
                        after[x].c # stores[storeObjs[x].name]}}
    IN  /\ storeObjs' = [h \in 1..Len(storeObjs) |->
                            IF h \in OwnStores(t) THEN after[h].o ELSE storeObjs[h]]
        /\ stores' = [n \in StoreNames |->
                         IF trans[t].stores[n] # 0 THEN after[trans[t].stores[n]].c
                         ELSE stores[n]]
        /\ applied' = [applied EXCEPT ![t] = @ \cup changed]

\* A _commitTransaction that commits the first of the stores and leaves
\* the others as they are.
CommitTransactionFirstStore(t) ==
    EachOwnStore(t, [h \in OwnStores(t) |->
        IF \A x \in OwnStores(t) : h <= x THEN CommitPendingData(Env(h)) ELSE Env(h)])

\* _commitTransaction
CommitTransaction(t) ==
    EachOwnStore(t, [h \in OwnStores(t) |-> CommitPendingData(Env(h))])

\* A timer callback that leaves _openTimer set.
TimerCallbackStaysOpen(t) ==
    /\ UNCHANGED trans
    /\ CommitTransaction(t)
    /\ lockHelper' = [lockHelper EXCEPT ![t] = Append(@, "complete")]

\* The timer callback of the constructor, for transaction t: it clears
\* _openTimer, commits, and tells the lock helper.
TimerCallback(t) ==
    /\ trans' = [trans EXCEPT ![t].openTimer = None]
    /\ CommitTransaction(t)
    /\ lockHelper' = [lockHelper EXCEPT ![t] = Append(@, "complete")]

\* The event loop runs the next pending timeout; timeouts of equal delay
\* run in the order they were set.
TimerFire ==
    /\ timers # <<>>
    /\ timers' = Tail(timers)
    /\ TimerCallback(Head(timers))
    /\ lastPut' = IF lastPut # None /\ storeObjs[lastPut[1].h].trans = Head(timers)
                  THEN lastPut ELSE None
    /\ UNCHANGED writes

\* An abort() that leaves the scheduled commit in place.
ClearTimeoutForgotten(queue, id) == queue

\* An abort() that cancels the scheduled commit of every transaction.
ClearTimeoutAll(queue, id) == <<>>

\* clearTimeout(id): the callback set under that id, if still pending,
\* will not run.
ClearTimeout(queue, id) ==
    IF id = None THEN queue ELSE SelectSeq(queue, LAMBDA x : x # id[1])

\* The number of transactionFailed calls the lock helper got.
RECURSIVE Failures(_)
Failures(log) ==
    IF log = <<>> THEN 0
    ELSE Len(SelectSeq(Head(log), LAMBDA x : x = "failed")) + Failures(Tail(log))

\* InMemoryTransaction.abort
Abort(t) ==
    /\ t \in 1..Len(trans)
    /\ Failures(lockHelper) < MaxAborts
    /\ EachOwnStore(t, [h \in OwnStores(t) |-> RollbackPendingData(Env(h))])
    /\ trans' = [trans EXCEPT ![t].stores = [n \in StoreNames |-> 0]]
    /\ timers' = ClearTimeout(timers, trans[t].openTimer)
    /\ lockHelper' = [lockHelper EXCEPT ![t] = Append(@, "failed")]
    /\ lastPut' = None
    /\ UNCHANGED writes

(* ----------------------- InMemoryStore methods ------------------------ *)

\* The arguments callers pass.
ItemLists == UNION {[1..n -> RowInputs] : n \in 1..MaxItems}
KeyLists == UNION {[1..n -> KeyInputs] : n \in 1..MaxItems}

Handles == 1..Len(storeObjs)

\* How a call ended: "ok", "keyerr" for an error thrown by the key codec,
\* and "closed" for the rejection 'InMemoryTransaction already closed'.
Status(r) == IF r.err THEN "keyerr" ELSE "ok"

\* What put(items) on store object h does in the current state: how it
\* ends and what it leaves behind.
PutResult(h, items) ==
    IF ~InternalIsOpen(storeObjs[h].trans)
    THEN [status |-> "closed", env |-> Env(h)]
    ELSE LET r == StorePut(Env(h), items) IN [status |-> Status(r), env |-> r.env]

\* The same for remove(keys).
RemoveResult(h, keys) ==
    IF ~InternalIsOpen(storeObjs[h].trans)
    THEN [status |-> "closed", env |-> Env(h)]
    ELSE LET r == StoreRemove(Env(h), keys) IN [status |-> Status(r), env |-> r.env]

\* The same for clearAllData().
ClearAllDataResult(h) ==
    IF ~InternalIsOpen(storeObjs[h].trans)
    THEN [status |-> "closed", env |-> Env(h)]
    ELSE [status |-> "ok", env |-> StoreClearAllData(Env(h))]

\* A call of put, remove or clearAllData on store object h with result r.
\* A rejected call changes nothing.
WriteCall(h, r, put) ==
    IF r.status = "closed"
    THEN UNCHANGED vars
    ELSE /\ writes < MaxWrites
         /\ writes' = writes + 1
         /\ StoreStep(h, r.env)
         /\ lastPut' = IF r.status = "ok" THEN put ELSE None

\* The items of one put call that no later item of the call replaces.
LastItems(items) ==
    {items[i] : i \in {j \in 1..Len(items) :
                         \A l \in (j + 1)..Len(items) : items[l].id # items[j].id}}

\* InMemoryStore.put
Put(h, items) ==
    /\ h \in Handles
    /\ WriteCall(h, PutResult(h, items), Some([h |-> h, rows |-> LastItems(items)]))

\* InMemoryStore.remove
Remove(h, keys) == h \in Handles /\ WriteCall(h, RemoveResult(h, keys), None)

\* InMemoryStore.clearAllData
ClearAllData(h) == h \in Handles /\ WriteCall(h, ClearAllDataResult(h), None)

\* What get(key) on store object h returns in the current state: how it
\* ends, and the row (None for undefined).
GetResult(h, key) ==
    IF ~InternalIsOpen(storeObjs[h].trans)
    THEN [status |-> "closed", rows |-> <<>>]
    ELSE LET r == StoreGet(Env(h), key) IN [status |-> Status(r), rows |-> r.rows]

\* What getMultiple(keys) on store object h returns in the current state.
GetMultipleResult(h, keys) ==
    IF ~InternalIsOpen(storeObjs[h].trans)
    THEN [status |-> "closed", rows |-> <<>>]
    ELSE LET r == StoreGetMultiple(Env(h), keys) IN [status |-> Status(r), rows |-> r.rows]

\* InMemoryStore.get: it returns GetResult(h, key) and changes nothing.
Get(h, key) ==
    /\ h \in Handles
    /\ GetResult(h, key).status \in {"ok", "keyerr", "closed"}
    /\ UNCHANGED vars

\* InMemoryStore.getMultiple: it returns GetMultipleResult(h, keys) and
\* changes nothing.
GetMultiple(h, keys) ==
    /\ h \in Handles
    /\ GetMultipleResult(h, keys).status \in {"ok", "keyerr", "closed"}
    /\ UNCHANGED vars

(* ----------------------- InMemoryIndex methods ------------------------ *)

\* The InMemoryIndex objects the caller holds.
RECURSIVE IndexCount(_)
IndexCount(objs) ==
    IF objs = <<>> THEN 0 ELSE Len(Head(objs).indexes) + IndexCount(Tail(objs))

KeepsIndex == IndexCount(storeObjs) < MaxIndexes

\* InMemoryStore.openPrimaryKey: no check of internal_isOpen.
OpenPrimaryKey(h) ==
    /\ h \in Handles
    /\ StoreStep(h, StoreOpenIndex(Env(h), "pk", KeepsIndex))
    /\ UNCHANGED <<writes, lastPut>>

\* InMemoryStore.openIndex: undefined, and nothing done, for a name the
\* schema does not declare.
OpenIndex(h, indexName) ==
    /\ h \in Handles
    /\ IF indexName \notin IndexNames
       THEN UNCHANGED vars
       ELSE /\ StoreStep(h, StoreOpenIndex(Env(h), indexName, KeepsIndex))
            /\ UNCHANGED <<writes, lastPut>>

HasIndex(h, i) == h \in Handles /\ i \in 1..Len(storeObjs[h].indexes)

IndexObj(h, i) == storeObjs[h].indexes[i]

\* this._mergedData of the index, read in the current state.
IndexData(h, i) == IndexMergedData(Env(h), IndexObj(h, i))

\* What the queries return in the current state: how they end, and the
\* rows or the count.
GetAllResult(h, i, reverse, limit, offset) ==
    IF ~InternalIsOpen(storeObjs[h].trans)
    THEN [status |-> "closed", rows |-> <<>>]
    ELSE LET r == IndexGetAll(IndexData(h, i), IndexObj(h, i).schema, reverse, limit, offset)
         IN  [status |-> Status(r), rows |-> r.rows]

GetRangeResult(h, i, low, high, lowEx, highEx, reverse, limit, offset) ==
    IF ~InternalIsOpen(storeObjs[h].trans)
    THEN [status |-> "closed", rows |-> <<>>]
    ELSE LET r == IndexGetRange(IndexData(h, i), IndexObj(h, i).schema,
                                low, high, lowEx, highEx, reverse, limit, offset)
         IN  [status |-> Status(r), rows |-> r.rows]

\* getOnly(key, ...) is getRange(key, key, false, false, ...)
GetOnlyResult(h, i, key, reverse, limit, offset) ==
    GetRangeResult(h, i, key, key, FALSE, FALSE, reverse, limit, offset)

CountAllResult(h, i) ==
    IF ~InternalIsOpen(storeObjs[h].trans)
    THEN [status |-> "closed", count |-> 0]
    ELSE LET r == IndexCountAll(IndexData(h, i), IndexObj(h, i).schema)
         IN  [status |-> Status(r), count |-> r.count]

CountRangeResult(h, i, low, high, lowEx, highEx) ==
    IF ~InternalIsOpen(storeObjs[h].trans)
    THEN [status |-> "closed", count |-> 0]
    ELSE LET r == IndexCountRange(IndexData(h, i), IndexObj(h, i).schema,
                                  low, high, lowEx, highEx)
         IN  [status |-> Status(r), count |-> r.count]

\* countOnly(key) is countRange(key, key, false, false)
CountOnlyResult(h, i, key) == CountRangeResult(h, i, key, key, FALSE, FALSE)

\* The arguments callers pass to the queries.
QueryKeys == Keys \cup Payloads \cup {NoKey}
Limits == 0..MaxLimit

Statuses == {"ok", "keyerr", "closed"}

\* The queries of InMemoryIndex: they return their result and change
\* nothing.
GetAll(h, i, reverse, limit, offset) ==
    /\ HasIndex(h, i)
    /\ GetAllResult(h, i, reverse, limit, offset).status \in Statuses
    /\ UNCHANGED vars

GetOnly(h, i, key, reverse, limit, offset) ==
    /\ HasIndex(h, i)
    /\ GetOnlyResult(h, i, key, reverse, limit, offset).status \in Statuses
    /\ UNCHANGED vars

GetRange(h, i, low, high, lowEx, highEx, reverse, limit, offset) ==
    /\ HasIndex(h, i)
    /\ GetRangeResult(h, i, low, high, lowEx, highEx, reverse, limit, offset).status
           \in Statuses
    /\ UNCHANGED vars

CountAll(h, i) ==
    /\ HasIndex(h, i)
    /\ CountAllResult(h, i).status \in Statuses
    /\ UNCHANGED vars

CountOnly(h, i, key) ==
    /\ HasIndex(h, i)
    /\ CountOnlyResult(h, i, key).status \in Statuses
    /\ UNCHANGED vars

CountRange(h, i, low, high, lowEx, highEx) ==
    /\ HasIndex(h, i)
    /\ CountRangeResult(h, i, low, high, lowEx, highEx).status \in Statuses
    /\ UNCHANGED vars

(* --------------------------- specification ----------------------------- *)

\* The transactions and the store methods. A list of several items starts
\* with the row (a, x) or with the row that has no key; a list of several
\* keys starts with the key a.
PutInputs ==
    {l \in ItemLists : Len(l) = 1 \/ l[1] \in {[id |-> "a", v |-> "x"], [id |-> NoKey, v |-> "x"]}}
KeyListInputs == {l \in KeyLists : Len(l) = 1 \/ l[1] = "a"}

Next ==
    \/ \E token \in Tokens : OpenTransaction(token)
    \/ \E t \in 1..MaxTrans, n \in NameInputs : GetStore(t, n)
    \/ TimerFire
    \/ \E t \in 1..MaxTrans : Abort(t)
    \/ \E h \in 1..MaxStoreObjs, items \in PutInputs : Put(h, items)
    \/ \E h \in 1..MaxStoreObjs, keys \in KeyListInputs : Remove(h, keys)
    \/ \E h \in 1..MaxStoreObjs : ClearAllData(h)
    \/ \E h \in 1..MaxStoreObjs, key \in KeyInputs : Get(h, key)
    \/ \E h \in 1..MaxStoreObjs, keys \in KeyListInputs : GetMultiple(h, keys)

Spec == Init /\ [][Next]_vars

\* The same with the index views, on store "A" alone, the store methods
\* being called with one item or key.
SingleItems == {<<r>> : r \in Rows}
SingleKeys == {<<k>> : k \in Keys}
LowKeys == {"a", NoKey}
HighKeys == {"y"}

NextIx ==
    \/ \E token \in Tokens : OpenTransaction(token)
    \/ \E t \in 1..MaxTrans : GetStore(t, "A")
    \/ TimerFire
    \/ \E t \in 1..MaxTrans : Abort(t)
    \/ \E h \in 1..MaxStoreObjs, items \in SingleItems : Put(h, items)
    \/ \E h \in 1..MaxStoreObjs, keys \in SingleKeys : Remove(h, keys)
    \/ \E h \in 1..MaxStoreObjs : ClearAllData(h)
    \/ \E h \in 1..MaxStoreObjs, key \in Keys : Get(h, key)
    \/ \E h \in 1..MaxStoreObjs, keys \in SingleKeys : GetMultiple(h, keys)
    \/ \E h \in 1..MaxStoreObjs : OpenPrimaryKey(h)
    \/ \E h \in 1..MaxStoreObjs, name \in {"byV", "nope"} : OpenIndex(h, name)
    \/ \E h \in 1..MaxStoreObjs, i \in 1..MaxIndexes, reverse \in BOOLEAN,
          limit \in Limits, offset \in Limits : GetAll(h, i, reverse, limit, offset)
    \/ \E h \in 1..MaxStoreObjs, i \in 1..MaxIndexes, key \in LowKeys :
          GetOnly(h, i, key, FALSE, 0, 0)
    \/ \E h \in 1..MaxStoreObjs, i \in 1..MaxIndexes, low \in LowKeys,
          high \in HighKeys, ex \in BOOLEAN :
          GetRange(h, i, low, high, ex, ~ex, FALSE, 0, 0)
    \/ \E h \in 1..MaxStoreObjs, i \in 1..MaxIndexes : CountAll(h, i)
    \/ \E h \in 1..MaxStoreObjs, i \in 1..MaxIndexes, key \in LowKeys :
          CountOnly(h, i, key)
    \/ \E h \in 1..MaxStoreObjs, i \in 1..MaxIndexes, low \in LowKeys,
          high \in HighKeys, ex \in BOOLEAN :
          CountRange(h, i, low, high, ex, ~ex)

SpecIx == Init /\ [][NextIx]_vars

\* Transactions opened for some of the stores, for a name the schema does
\* not declare, and for reading alone; the store methods are called with
\* one item or key.
TokenInputs ==
    {[storeNames |-> names, writeNeeded |-> w] :
        names \in {{"A"}, {"A", "B"}, {"B", "Z"}}, w \in BOOLEAN}

NextTokens ==
    \/ \E token \in TokenInputs : OpenTransaction(token)
    \/ \E t \in 1..MaxTrans, n \in NameInputs : GetStore(t, n)
    \/ TimerFire
    \/ \E h \in 1..MaxStoreObjs, items \in SingleItems : Put(h, items)
    \/ \E h \in 1..MaxStoreObjs, keys \in SingleKeys : Remove(h, keys)
    \/ \E h \in 1..MaxStoreObjs, key \in Keys : Get(h, key)

SpecTokens == Init /\ [][NextTokens]_vars

\* The index views over rows with three primary keys and a collection
\* field: the rows are put one by one, or all in one list, in any order.
MaxQueryItems == 3
QueryRows ==
    {[id |-> "a", v |-> "y", tags |-> <<"x", "y">>],
     [id |-> "b", v |-> "x", tags |-> <<"x", "x">>],
     [id |-> "c", v |-> "x"]}
QueryItems ==
    {l \in UNION {[1..n -> QueryRows] : n \in {1, MaxQueryItems}} :
        \A i \in 1..Len(l), j \in 1..Len(l) : i # j => l[i].id # l[j].id}
RangeKeys == {"a", "b", "c", "x", "y", NoKey}

NextQuery ==
    \/ \E token \in Tokens : OpenTransaction(token)
    \/ \E t \in 1..MaxTrans : GetStore(t, "A")
    \/ TimerFire
    \/ \E h \in 1..MaxStoreObjs, items \in QueryItems : Put(h, items)
    \/ \E h \in 1..MaxStoreObjs : OpenPrimaryKey(h)
    \/ \E h \in 1..MaxStoreObjs, name \in IndexNames : OpenIndex(h, name)
    \/ \E h \in 1..MaxStoreObjs, i \in 1..MaxIndexes, reverse \in BOOLEAN,
          limit \in Limits, offset \in Limits : GetAll(h, i, reverse, limit, offset)
    \/ \E h \in 1..MaxStoreObjs, i \in 1..MaxIndexes, key \in LowKeys :
          GetOnly(h, i, key, FALSE, 0, 0)
    \/ \E h \in 1..MaxStoreObjs, i \in 1..MaxIndexes, low \in LowKeys,
          high \in HighKeys, lowEx \in BOOLEAN, highEx \in BOOLEAN,
          reverse \in BOOLEAN :
          GetRange(h, i, low, high, lowEx, highEx, reverse, 0, 0)
    \/ \E h \in 1..MaxStoreObjs, i \in 1..MaxIndexes : CountAll(h, i)
    \/ \E h \in 1..MaxStoreObjs, i \in 1..MaxIndexes, key \in LowKeys :
          CountOnly(h, i, key)
    \/ \E h \in 1..MaxStoreObjs, i \in 1..MaxIndexes, low \in LowKeys,
          high \in HighKeys, lowEx \in BOOLEAN, highEx \in BOOLEAN :
          CountRange(h, i, low, high, lowEx, highEx)

SpecQuery == Init /\ [][NextQuery]_vars

\* The timer callbacks run: a callback set with setTimeout(..., 0) and not
\* cleared is run by the event loop.
\* The same as Spec with the lock helper granting one token at a time: a
\* transaction is opened when no commit is scheduled.
OpenTransactionAlone(token) == timers = <<>> /\ OpenTransaction(token)

NextSerial ==
    \/ \E token \in Tokens : OpenTransactionAlone(token)
    \/ \E t \in 1..MaxTrans, n \in NameInputs : GetStore(t, n)
    \/ TimerFire
    \/ \E t \in 1..MaxTrans : Abort(t)
    \/ \E h \in 1..MaxStoreObjs, items \in PutInputs : Put(h, items)
    \/ \E h \in 1..MaxStoreObjs, keys \in KeyListInputs : Remove(h, keys)
    \/ \E h \in 1..MaxStoreObjs : ClearAllData(h)
    \/ \E h \in 1..MaxStoreObjs, key \in KeyInputs : Get(h, key)
    \/ \E h \in 1..MaxStoreObjs, keys \in KeyListInputs : GetMultiple(h, keys)

SpecSerial == Init /\ [][NextSerial]_vars

FairSpec == Spec /\ WF_vars(TimerFire)

(* ----------------------------- properties ------------------------------ *)

Transactions == 1..Len(trans)

Has(log, signal) == \E i \in 1..Len(log) : log[i] = signal

\* The lock helper was told transactionComplete / transactionFailed for t.
Committed(t) == Has(lockHelper[t], "complete")
Aborted(t) == Has(lockHelper[t], "failed")

\* The step is the timer callback of transaction t.
CommitStep(t) ==
    t \in Transactions /\ lockHelper'[t] = Append(lockHelper[t], "complete")

\* What get(key) returns through the store object that getStore(name)
\* gives a transaction opened now.
FreshGet(name, key) ==
    LET r == StoreGet([o |-> NewStore(Len(trans) + 1, name), c |-> stores[name]], key)
    IN  [status |-> Status(r), rows |-> r.rows]

\* The entries of _pendingCommitDataChanges of store object h.
Pending(h) == IF storeObjs[h].pending = None THEN EmptyDict ELSE storeObjs[h].pending[1]

\* C1: once put(items) on a store object has resolved, and until another
\* put, remove or clearAllData is accepted, get(k) through that object
\* returns the item r the call put last under k, whatever was written
\* before; and once the timer callback of the transaction has run, get(k)
\* returns r through the store object of a transaction opened from then on,
\* and through every store object of an open transaction that reads the
\* committed dictionary.
C1_PutGetRoundTrip ==
    lastPut # None =>
        LET h == lastPut[1].h
            t == storeObjs[h].trans
            n == storeObjs[h].name
        IN  \A r \in lastPut[1].rows :
              /\ InternalIsOpen(t) =>
                    GetResult(h, r.id) = [status |-> "ok", rows |-> <<r>>]
              /\ Committed(t) =>
                    /\ FreshGet(n, r.id) = [status |-> "ok", rows |-> <<r>>]
                    /\ \A h2 \in Handles :
                          ( /\ storeObjs[h2].name = n
                            /\ storeObjs[h2].pending = None
                            /\ InternalIsOpen(storeObjs[h2].trans) )
                          => GetResult(h2, r.id) = [status |-> "ok", rows |-> <<r>>]

\* A put that followed another write has been committed, and a later
\* transaction holds a store object of the same store.
C1_Witness ==
    /\ lastPut # None
    /\ lastPut[1].rows # {}
    /\ writes = 2
    /\ Committed(storeObjs[lastPut[1].h].trans)
    /\ \E h2 \in Handles :
          /\ storeObjs[h2].trans > storeObjs[lastPut[1].h].trans
          /\ storeObjs[h2].name = storeObjs[lastPut[1].h].name
          /\ storeObjs[h2].pending = None
          /\ InternalIsOpen(storeObjs[h2].trans)

\* C3: when abort() is the first outcome of a transaction (it was called
\* while the commit was still scheduled), no call made through the
\* transaction, before the abort or after it, modifies the dictionary of
\* any store, and the timer callback never runs for it.
C3_AbortDiscards ==
    \A t \in Transactions :
        (lockHelper[t] # <<>> /\ lockHelper[t][1] = "failed") =>
            /\ applied[t] = {}
            /\ ~Committed(t)

\* A transaction was aborted, the event loop has no callback left to run,
\* and a store object of the transaction holds changes written since.
C3_Witness ==
    \E t \in Transactions, h \in Handles :
        /\ lockHelper[t] # <<>> /\ lockHelper[t][1] = "failed"
        /\ timers = <<>>
        /\ storeObjs[h].trans = t
        /\ Pending(h) # EmptyDict
        /\ writes = 2

\* C6: after abort() every call of get, getMultiple, put, remove and
\* clearAllData on a store object of the transaction is rejected with
\* 'already closed'.
C6_ClosedAfterAbort ==
    \A h \in Handles :
        Aborted(storeObjs[h].trans) =>
            /\ \A key \in KeyInputs : GetResult(h, key).status = "closed"
            /\ \A keys \in KeyLists : GetMultipleResult(h, keys).status = "closed"
            /\ \A items \in ItemLists : PutResult(h, items).status = "closed"
            /\ \A keys \in KeyLists : RemoveResult(h, keys).status = "closed"
            /\ ClearAllDataResult(h).status = "closed"

\* C8: the lock helper never gets a second terminal signal for one
\* transaction.
C8_OneTerminalSignal == \A t \in Transactions : Len(lockHelper[t]) <= 1

\* C10: in a store object that has forked, a key whose pending entry is the
\* tombstone is absent from the merged view, and a key whose pending entry
\* is a row has that row in the merged view.
C10_ViewConsistency ==
    \A h \in Handles :
        LET p == Pending(h)
            m == MergedData(Env(h))
        IN  storeObjs[h].pending # None =>
                \A i \in 1..Len(p) :
                    IF p[i].val = Undefined
                    THEN ~DictHas(m, p[i].k)
                    ELSE DictGet(m, p[i].k) = Some(p[i].val)

\* A forked store object holds a tombstone and a row among its pending
\* changes.
C10_Witness ==
    \E h \in Handles :
        /\ \E i \in 1..Len(Pending(h)) : Pending(h)[i].val = Undefined
        /\ \E i \in 1..Len(Pending(h)) : Pending(h)[i].val # Undefined

\* The keys of the callers that serialize to the property key.
KeysOf(key) == {k \in Keys : SerializeKeyToString(k) = key}

\* C4: the timer callback of a transaction, for every store object the
\* transaction holds, leaves each row of the pending changes in the
\* store's dictionary under its key and each tombstoned key absent, and
\* leaves every other key and every other store as it was; so a transaction
\* opened from then on gets undefined for a key removed and the row for a
\* key put, also when the put came after a remove of that key.
C4_CommitAppliesDelta ==
    [][\A t \in 1..MaxTrans : CommitStep(t) =>
          /\ \A h \in OwnStores(t) :
                LET n == storeObjs[h].name
                    p == Pending(h)
                IN  /\ \A i \in 1..Len(p) :
                          /\ DictGet(stores'[n], p[i].k) =
                                IF p[i].val = Undefined THEN None ELSE Some(p[i].val)
                          /\ \A key \in KeysOf(p[i].k) :
                                FreshGet(n, key)' =
                                    [status |-> "ok", rows |-> DictGet(stores'[n], p[i].k)]
                    /\ \A key \in DictKeys(stores[n]) \cup DictKeys(stores'[n]) :
                          ~DictHas(p, key) =>
                              DictGet(stores'[n], key) = DictGet(stores[n], key)
          /\ \A n \in StoreNames : trans[t].stores[n] = 0 => stores'[n] = stores[n]
      ]_vars

\* The second transaction has committed a change that left a store empty
\* which the first had filled: its tombstones were applied.
C4_Witness ==
    /\ Len(trans) = 2
    /\ Committed(1) /\ Committed(2)
    /\ \E n \in applied[1] \cap applied[2] : stores[n] = EmptyDict

\* What a caller reads through store object h: every row by get and by
\* getMultiple, and through each index view every row in both orders, the
\* rows and the count of the whole range of keys, and the count of all.
Observe(h) ==
    [get |-> [key \in Keys |-> GetResult(h, key)],
     getMultiple |-> GetMultipleResult(h, <<"a", "b">>),
     index |-> [i \in 1..Len(storeObjs[h].indexes) |->
        [getAll |-> [reverse \in BOOLEAN |-> GetAllResult(h, i, reverse, 0, 0)],
         getRange |-> GetRangeResult(h, i, "a", "y", FALSE, FALSE, FALSE, 0, 0),
         countAll |-> CountAllResult(h, i),
         countRange |-> CountRangeResult(h, i, "a", "y", FALSE, FALSE)]]]

\* The step is a put, remove or clearAllData on store object h1.
WriteThrough(h1) ==
    \/ \E items \in ItemLists : Put(h1, items)
    \/ \E keys \in KeyLists : Remove(h1, keys)
    \/ ClearAllData(h1)

\* C2: a put, remove or clearAllData accepted through a store object of
\* one transaction changes nothing that get, getMultiple or an index query
\* returns through a store object of another transaction.
C2_Isolation ==
    [][\A h1 \in Handles :
          (writes' # writes /\ WriteThrough(h1)) =>
              \A h2 \in Handles :
                  storeObjs[h2].trans # storeObjs[h1].trans =>
                      Observe(h2)' = Observe(h2)
      ]_vars

\* Two open transactions hold a store object of the same store; one has
\* pending changes and the other an index view.
C2_Witness ==
    \E h1, h2 \in Handles :
        /\ storeObjs[h1].trans # storeObjs[h2].trans
        /\ storeObjs[h1].name = storeObjs[h2].name
        /\ InternalIsOpen(storeObjs[h1].trans) /\ ~Aborted(storeObjs[h1].trans)
        /\ InternalIsOpen(storeObjs[h2].trans)
        /\ Pending(h1) # EmptyDict
        /\ HasIndex(h2, 1)

\* C5: once the timer callback of a transaction has run, every get,
\* getMultiple, put, remove and clearAllData on its store objects and every
\* query of their index views is rejected with 'already closed', and the
\* rejected call leaves the store's dictionary as it is.
C5_ClosedAfterCommit ==
    \A h \in Handles :
        Committed(storeObjs[h].trans) =>
            /\ \A key \in KeyInputs : GetResult(h, key).status = "closed"
            /\ \A keys \in KeyLists : GetMultipleResult(h, keys).status = "closed"
            /\ \A items \in ItemLists :
                  /\ PutResult(h, items).status = "closed"
                  /\ PutResult(h, items).env.c = stores[storeObjs[h].name]
            /\ \A keys \in KeyLists :
                  /\ RemoveResult(h, keys).status = "closed"
                  /\ RemoveResult(h, keys).env.c = stores[storeObjs[h].name]
            /\ ClearAllDataResult(h).status = "closed"
            /\ ClearAllDataResult(h).env.c = stores[storeObjs[h].name]
            /\ \A i \in 1..Len(storeObjs[h].indexes) :
                  /\ \A reverse \in BOOLEAN, limit \in Limits, offset \in Limits :
                        GetAllResult(h, i, reverse, limit, offset).status = "closed"
                  /\ \A key \in QueryKeys :
                        /\ GetOnlyResult(h, i, key, FALSE, 0, 0).status = "closed"
                        /\ CountOnlyResult(h, i, key).status = "closed"
                  /\ \A low \in QueryKeys, high \in QueryKeys, ex \in BOOLEAN :
                        /\ GetRangeResult(h, i, low, high, ex, ~ex, FALSE, 0, 0).status = "closed"
                        /\ CountRangeResult(h, i, low, high, ex, ~ex).status = "closed"
                  /\ CountAllResult(h, i).status = "closed"

\* A committed transaction has a store object with an index view, and the
\* store's dictionary holds a row.
C5_Witness ==
    \E h \in Handles :
        /\ Committed(storeObjs[h].trans)
        /\ HasIndex(h, 1)
        /\ stores[storeObjs[h].name] # EmptyDict

\* C7: every transaction constructed is aborted or gets its timer callback
\* run, with no call needed from the outside; and once the lock helper was
\* told transactionComplete, no store object of the transaction holds a
\* pending change that was not applied.
C7_AutoCommit ==
    /\ \A t \in 1..MaxTrans :
          [](t \in Transactions =>
                <>(t \in Transactions /\ (Aborted(t) \/ Committed(t))))
    /\ [](\A h \in Handles :
              Committed(storeObjs[h].trans) => Pending(h) = EmptyDict)

\* Both transactions have completed, one that no call was made through and
\* one whose writes were applied.
C7_Witness ==
    /\ Len(trans) = 2
    /\ Committed(1) /\ Committed(2)
    /\ ~Aborted(1) /\ ~Aborted(2)
    /\ \E t \in Transactions : OwnStores(t) = {}
    /\ \E t \in Transactions : applied[t] # {}

\* C9: the dictionary of a store changes in the timer callback of a
\* transaction and in no other step: no put, remove, clearAllData, index
\* open, abort or getStore changes it.
C9_CommittedChangesOnlyInCommit ==
    [][stores' # stores => \E t \in 1..MaxTrans : CommitStep(t) /\ TimerFire]_vars

\* Writes were accepted, an index view was opened and a transaction was
\* aborted, and every store's dictionary is still empty.
C9_Witness ==
    /\ writes = 2
    /\ IndexCount(storeObjs) > 0
    /\ \E t \in Transactions : Aborted(t)
    /\ \A n \in StoreNames : stores[n] = EmptyDict

C20_ReadOnlyNeverWrites ==
    \A t \in Transactions : ~trans[t].writeNeeded => applied[t] = {}

\* The index views there are: store object and position.
Views == {<<h, i>> \in Handles \X (1..MaxIndexes) : HasIndex(h, i)}

\* What _calcChunkedData gives for view w in the current state.
Chunked(w) == CalcChunkedData(IndexData(w[1], w[2]), IndexObj(w[1], w[2]).schema)

\* The keys of K in ascending order, or in descending order.
Ordered(K, reverse) ==
    CHOOSE ks \in [1..Cardinality(K) -> K] :
        \A i \in 1..Cardinality(K), j \in 1..Cardinality(K) :
            i < j => IF reverse THEN ks[i] > ks[j] ELSE ks[i] < ks[j]

\* The rows filed under the keys ks, key after key.
RowsUnder(data, ks) == Flatten([i \in 1..Len(ks) |-> DictValue(data, ks[i])])

\* Index key k lies between low and high.
InRange(k, low, high, lowEx, highEx) ==
    /\ (k > SerializeKeyToString(low) \/ (k = SerializeKeyToString(low) /\ ~lowEx))
    /\ (k < SerializeKeyToString(high) \/ (k = SerializeKeyToString(high) /\ ~highEx))

\* C12: getRange(low, high, lowExclusive, highExclusive, reverse) that
\* resolves returns exactly the rows of the index keys k with (k > low or
\* (k = low and not lowExclusive)) and (k < high or (k = high and not
\* highExclusive)), in ascending order of the serialized key, and in
\* descending order with reverse.
C12_RangeOrdering ==
    \A w \in Views, low \in RangeKeys, high \in RangeKeys,
       lowEx \in BOOLEAN, highEx \in BOOLEAN, reverse \in BOOLEAN :
        LET r == GetRangeResult(w[1], w[2], low, high, lowEx, highEx, reverse, 0, 0)
            K == {k \in DictKeys(Chunked(w)) : InRange(k, low, high, lowEx, highEx)}
        IN  r.status = "ok" => r.rows = RowsUnder(Chunked(w), Ordered(K, reverse))

\* A primary key view over rows with the keys a, b and c, the row of c put
\* first: getRange(a, c, false, true) returns the rows of a and b, and with
\* reverse the rows of b and a.
C12_Witness ==
    \E w \in Views :
        /\ IndexObj(w[1], w[2]).schema = "pk"
        /\ DictKeys(IndexData(w[1], w[2])) = {1, 2, 3}
        /\ IndexData(w[1], w[2])[1].k = 3
        /\ LET r == GetRangeResult(w[1], w[2], "a", "c", FALSE, TRUE, FALSE, 0, 0)
                q == GetRangeResult(w[1], w[2], "a", "c", FALSE, TRUE, TRUE, 0, 0)
           IN  /\ r.status = "ok" /\ q.status = "ok"
               /\ Len(r.rows) = 2 /\ r.rows[1].id = "a" /\ r.rows[2].id = "b"
               /\ Len(q.rows) = 2 /\ q.rows[1].id = "b" /\ q.rows[2].id = "a"

\* C13: getAll(reverse, limit, offset) with a limit and an offset supplied
\* sorts the index keys ascending, reverses them if asked, drops the first
\* offset keys, keeps at most limit keys, and returns the rows filed under
\* the keys that remain.
C13_OffsetLimit ==
    \A w \in Views, reverse \in BOOLEAN, limit \in Limits, offset \in Limits :
        LET r == GetAllResult(w[1], w[2], reverse, limit, offset)
            ks == Ordered(DictKeys(Chunked(w)), reverse)
            kept == [i \in 1..(IF Len(ks) - offset < limit
                               THEN (IF Len(ks) > offset THEN Len(ks) - offset ELSE 0)
                               ELSE limit) |-> ks[offset + i]]
        IN  r.status = "ok" => r.rows = RowsUnder(Chunked(w), kept)

\* The distinct index keys of a row on the multi-entry index.
ElementKeys(item) ==
    {SerializeKeyToString(MultiEntryValues(item)[i]) :
        i \in 1..Len(MultiEntryValues(item))}

\* How many times x occurs in the sequence q.
Occurrences(q, x) == Cardinality({i \in 1..Len(q) : q[i] = x})

\* C14: on a multi-entry index, getAll() returns a row once for each
\* distinct element key of its collection, and countAll, countOnly and
\* countRange return the number of distinct index keys selected.
C14_MultiEntryFanOut ==
    \A w \in Views :
        (IndexObj(w[1], w[2]).schema = "byTags"
            /\ GetAllResult(w[1], w[2], FALSE, 0, 0).status = "ok") =>
        LET data == IndexData(w[1], w[2])
            rows == GetAllResult(w[1], w[2], FALSE, 0, 0).rows
            allKeys == UNION {ElementKeys(data[i].val) : i \in 1..Len(data)}
        IN  /\ \A i \in 1..Len(data) :
                  Occurrences(rows, data[i].val) = Cardinality(ElementKeys(data[i].val))
            /\ CountAllResult(w[1], w[2]).count = Cardinality(allKeys)
            /\ \A key \in Payloads :
                  CountOnlyResult(w[1], w[2], key).count =
                      Cardinality(allKeys \cap {SerializeKeyToString(key)})
            /\ \A low \in Payloads, high \in Payloads, lowEx \in BOOLEAN, highEx \in BOOLEAN :
                  CountRangeResult(w[1], w[2], low, high, lowEx, highEx).count =
                      Cardinality({k \in allKeys : InRange(k, low, high, lowEx, highEx)})

\* C15: every query on an index view of an open transaction (one neither
\* committed nor aborted) returns what it would return computed from the
\* store's merged view as it is at the time of the query.
C15_ViewsNeverStale ==
    \A w \in Views :
        (InternalIsOpen(storeObjs[w[1]].trans) /\ ~Aborted(storeObjs[w[1]].trans)) =>
        LET schema == IndexObj(w[1], w[2]).schema
            merged == MergedData(Env(w[1]))
        IN  /\ \A reverse \in BOOLEAN :
                  /\ GetAllResult(w[1], w[2], reverse, 0, 0).rows =
                         IndexGetAll(merged, schema, reverse, 0, 0).rows
                  /\ GetRangeResult(w[1], w[2], "a", "y", FALSE, FALSE, reverse, 0, 0).rows =
                         IndexGetRange(merged, schema, "a", "y", FALSE, FALSE, reverse, 0, 0).rows
            /\ CountAllResult(w[1], w[2]).count = IndexCountAll(merged, schema).count
            /\ CountRangeResult(w[1], w[2], "a", "y", FALSE, FALSE).count =
                   IndexCountRange(merged, schema, "a", "y", FALSE, FALSE).count

\* The store objects of transaction t's _stores that hold changes.
Changed(t) == {h \in OwnStores(t) : Pending(h) # EmptyDict}

\* C16: a step that ends the pending changes of one store of a transaction
\* ends those of all its stores, and either every store's dictionary has
\* all the changes of the transaction after it or every one is as it was;
\* so in no state has a transaction changed the dictionary of one store
\* while changes of it to another are still pending.
C16_AtomicCommit ==
    /\ [](\A t \in Transactions : applied[t] # {} => Changed(t) = {})
    /\ [][\A t \in Transactions :
            (\E h \in Changed(t) : storeObjs'[h].pending = None) =>
                /\ \A h \in Changed(t) : storeObjs'[h].pending = None
                /\ \/ \A h \in Changed(t) : \A i \in 1..Len(Pending(h)) :
                          DictGet(stores'[storeObjs[h].name], Pending(h)[i].k) =
                              IF Pending(h)[i].val = Undefined THEN None
                              ELSE Some(Pending(h)[i].val)
                   \/ \A h \in Changed(t) :
                          stores'[storeObjs[h].name] = stores[storeObjs[h].name]
       ]_vars

\* The timer callback of a transaction that had changes to both stores
\* pending has run, and both dictionaries hold a row.
C16_Witness ==
    \E t \in Transactions :
        /\ applied[t] = {"A", "B"}
        /\ Committed(t)
        /\ \A n \in StoreNames : stores[n] # EmptyDict

\* Store object h has cloned the dictionary of its store (the first put,
\* remove, clearAllData, openIndex or openPrimaryKey since it was made or
\* rolled back) and its transaction is open.
Forked(h) == storeObjs[h].pending # None /\ InternalIsOpen(storeObjs[h].trans)

\* C17: a timer callback of a transaction that changes the dictionary of
\* a store leaves what every other transaction reads of that store,
\* through a store object that has cloned the dictionary, by get,
\* getMultiple and the index queries as it was.
C17_SnapshotAtFork ==
    [][\A t \in 1..MaxTrans : CommitStep(t) =>
          \A h \in Handles :
              ( /\ storeObjs[h].trans # t
                /\ Forked(h)
                /\ stores'[storeObjs[h].name] # stores[storeObjs[h].name] )
              => Observe(h)' = Observe(h)
      ]_vars

\* A store object cloned the dictionary of its store while it was empty,
\* has changed nothing and still reads it empty in an open transaction,
\* after another transaction has committed a row to that store.
C17_Witness ==
    \E h \in Handles :
        /\ Forked(h)
        /\ ~Aborted(storeObjs[h].trans)
        /\ Pending(h) = EmptyDict
        /\ MergedData(Env(h)) = EmptyDict
        /\ stores[storeObjs[h].name] # EmptyDict
        /\ \E t \in Transactions :
              t # storeObjs[h].trans /\ Committed(t) /\ storeObjs[h].name \in applied[t]

\* C18: a put(items) that is rejected because an item has no primary key
\* leaves _mergedData and the entries of _pendingCommitDataChanges of the
\* store object as they were before the call.
C18_RejectedPutWritesNothing ==
    [][\A h \in 1..MaxStoreObjs, items \in PutInputs :
          ( /\ writes' # writes
            /\ h \in Handles
            /\ PutResult(h, items).status = "keyerr"
            /\ Put(h, items) )
          => /\ AsMap(MergedData(Env(h)))' = AsMap(MergedData(Env(h)))
             /\ Pending(h)' = Pending(h)
      ]_vars

\* C19: when no other transaction commits between the first put, remove
\* or clearAllData of a transaction on a store and its timer callback, the
\* store's dictionary after the timer callback holds what _mergedData of
\* the transaction's store object held just before it.
C19_CommitReproducesView ==
    [][\A t \in 1..MaxTrans : CommitStep(t) =>
          \A h \in OwnStores(t) :
              storeObjs[h].pending # None =>
                  AsMap(stores'[storeObjs[h].name]) = AsMap(MergedData(Env(h)))
      ]_vars

\* The second transaction has committed changes to a store the first had
\* filled, and has left a row in it.
C19_Witness ==
    /\ Len(trans) = 2
    /\ Committed(1) /\ Committed(2)
    /\ \E n \in applied[1] \cap applied[2] : stores[n] # EmptyDict

====
